---------------------------- MODULE Spec2Model ----------------------------
(***************************************************************************)
(* A model of GPlatesClassStruggle:                                        *)
(*   - gprm/datasets/GSFML.py: the five dataset fetchers (retrieve with a  *)
(*     fixed sha256, optional archive lookup, optional parse);             *)
(*   - reconstruction_classes.py: ReconstructionModel, PlateSnapshot,      *)
(*     VelocityField, age_coded_point_dataset, point_distribution_on_sphere*)
(* The reconstruction engine, the HTTP fetch utility and the table parsers *)
(* are outside the repository: their answers are inputs chosen with \E.    *)
(***************************************************************************)
EXTENDS Integers, Sequences, FiniteSets, TLC

VARIABLES
    world,              \* a dataset's remote content: does it match the hash, which files it yields
    call,               \* the fetcher call made last: function, argument, load
    out,                \* what that call did: result, retrieves, parsed files, inspected entries
    rm,                 \* a ReconstructionModel: name and its three file lists
    added,              \* the files passed to each add_* method so far, in call order
    snap,               \* the PlateSnapshot returned last by plate_snapshot
    conv,               \* the last subduction_convergence call: time, engine samples, table
    ds,                 \* an age_coded_point_dataset: attribute name -> value
    last,               \* the method called last on ds: name, arguments, outcome
    vsnap,              \* the PlateSnapshot velocity_field is called on
    domain,             \* the velocity_domain_features argument: given features, or None
    field,              \* the last velocity_field call: the VelocityField, or the exception
    dargs,              \* the arguments of point_distribution_on_sphere
    dist                \* the point distribution constructed from them

fetchVars == <<world, call, out>>
modelVars == <<rm, added, snap, conv>>
dataVars == <<ds, last>>
velVars == <<vsnap, domain, field>>
distVars == <<dargs, dist>>
vars == <<fetchVars, modelVars, dataVars, velVars, distVars>>

---------------------------------------------------------------------------
(* Bounds *)

\* the longest file list an extracted archive yields
MaxFiles == 2

\* the number of add_* calls made on a ReconstructionModel
MaxAdds == 3

\* the most samples the engine returns for one reconstruction time
MaxSamples == 2

\* the most rows of the table an age_coded_point_dataset is built from
MaxRows == 2

\* the most velocity domain features given to velocity_field
MaxFeatures == 2

\* the largest N given to point_distribution_on_sphere
MaxN == 12

SeqsUpTo(S, n) == UNION {[1..k -> S] : k \in 0..n}

Range(s) == {s[i] : i \in 1..Len(s)}

---------------------------------------------------------------------------
(* Python values: a path is the sequence of its components; a function     *)
(* call ends by returning None, a filename or a table, or by raising.      *)

Ret(kind, path, exc) == [kind |-> kind, path |-> path, exc |-> exc]
None == Ret("none", <<>>, "")
Filename(p) == Ret("filename", p, "")
Table(p) == Ret("table", p, "")
Raise(e) == Ret("raise", <<>>, e)

\* a local variable: unbound until assigned
Unbound == [bound |-> FALSE, val |-> <<>>]
Bound(v) == [bound |-> TRUE, val |-> v]

\* os.path.split: (head, tail), the tail being the last component
os_path_split(p) ==
    IF Len(p) = 0 THEN <<<<>>, "">>
    ELSE <<SubSeq(p, 1, Len(p) - 1), p[Len(p)]>>

\* pooch.os_cache('gprm')
os_cache == <<"cache", "gprm">>

---------------------------------------------------------------------------
(* The environment of a fetch: whether the content matches the function's  *)
(* known_hash, and the file (list) the download or extraction yields.      *)

Env(dataset, hashOK, files) ==
    [dataset |-> dataset, hashOK |-> hashOK, files |-> files]

\* pooch.retrieve(url, known_hash, ...): the file name(s), or ValueError on
\* a hash mismatch
retrieve(env) ==
    IF env.hashOK THEN [ok |-> TRUE, fnames |-> env.files]
    ELSE [ok |-> FALSE, fnames |-> <<>>]

\* file names the readers can parse as vector data
VectorNames ==
    {"GSFML.global.picks.gmt",
     "GSFML_SF_FZ_KM.gmt", "GSFML_SF_FZLC_KM.gmt", "GSFML_SF_UNCV_KM.gmt",
     "GSFML_SF_DZ_KM.gmt", "GSFML_SF_PR_KM.gmt", "GSFML_SF_VANOM_KM.gmt",
     "GSFML_SF_ER_KM.gmt", "GSFML_SF_FZ_JW.gmt", "GSFML_SF_FZ_RM.gmt",
     "GSFML_SF_FZ_MC.gmt",
     "Whittaker_etal_2015_LIPs.shp", "Johansson_etal_2018_VolcanicProvinces_v2.shp"}

\* geopandas.read_file(fname): a table read from fname; an error when the
\* file is missing or is no vector data
read_file(fname, disk) ==
    IF fname \in disk /\ os_path_split(fname)[2] \in VectorNames
    THEN Table(fname) ELSE Raise("DriverError")

\* pandas.read_csv(fname, names=...) and the GeoDataFrame built from it
read_csv(fname, disk) ==
    IF fname \in disk THEN Table(fname) ELSE Raise("FileNotFoundError")

Outcome(result, retrieves, parsed, inspected) ==
    [result |-> result, retrieves |-> retrieves, parsed |-> parsed,
     inspected |-> inspected]

---------------------------------------------------------------------------
(* MagneticPicks, PacificSeamountAges, SeamountCensus: single files        *)

\* a fetch that asks again after a hash mismatch
MagneticPicksRetry(load, env) ==
    LET r == retrieve(env) IN
    IF ~r.ok THEN Outcome(Raise("ValueError"), 2, <<>>, 0)
    ELSE LET fname == r.fnames[1] IN
         IF load
         THEN Outcome(read_file(fname, {fname}), 1, <<fname>>, 0)
         ELSE Outcome(Filename(fname), 1, <<>>, 0)

MagneticPicks(load, env) ==
    LET r == retrieve(env) IN
    IF ~r.ok THEN Outcome(Raise("ValueError"), 1, <<>>, 0)
    ELSE LET fname == r.fnames[1] IN
         IF load
         THEN Outcome(read_file(fname, {fname}), 1, <<fname>>, 0)
         ELSE Outcome(Filename(fname), 1, <<>>, 0)

PacificSeamountAges(load, env) ==
    LET r == retrieve(env) IN
    IF ~r.ok THEN Outcome(Raise("ValueError"), 1, <<>>, 0)
    ELSE LET fname == r.fnames[1] IN
         IF load
         THEN Outcome(read_csv(fname, {fname}), 1, <<fname>>, 0)
         ELSE Outcome(Filename(fname), 1, <<>>, 0)

SeamountCensus(load, env) ==
    LET r == retrieve(env) IN
    IF ~r.ok THEN Outcome(Raise("ValueError"), 1, <<>>, 0)
    ELSE LET fname == r.fnames[1] IN
         IF load
         THEN Outcome(read_csv(fname, {fname}), 1, <<fname>>, 0)
         ELSE Outcome(Filename(fname), 1, <<>>, 0)

---------------------------------------------------------------------------
(* SeafloorFabric *)

FABRIC_CODES ==
    {"FZ", "FZLC", "UNCV", "DZ", "PR", "VANOM", "ER", "FZ_JW", "FZ_RM", "FZ_MC"}

FABRIC_TYPE ==
    [c \in FABRIC_CODES |->
        CASE c = "FZ"    -> "GSFML_SF_FZ_KM.gmt"
          [] c = "FZLC"  -> "GSFML_SF_FZLC_KM.gmt"
          [] c = "UNCV"  -> "GSFML_SF_UNCV_KM.gmt"
          [] c = "DZ"    -> "GSFML_SF_DZ_KM.gmt"
          [] c = "PR"    -> "GSFML_SF_PR_KM.gmt"
          [] c = "VANOM" -> "GSFML_SF_VANOM_KM.gmt"
          [] c = "ER"    -> "GSFML_SF_ER_KM.gmt"
          [] c = "FZ_JW" -> "GSFML_SF_FZ_JW.gmt"
          [] c = "FZ_RM" -> "GSFML_SF_FZ_RM.gmt"
          [] c = "FZ_MC" -> "GSFML_SF_FZ_MC.gmt"]

\* the loop of lines 80-85 from entry i on: the index of the first entry
\* whose base name is `name`, or 0 when the loop runs off the end
RECURSIVE FirstNamed(_, _, _)
FirstNamed(fnames, name, i) ==
    IF i > Len(fnames) THEN 0
    ELSE IF os_path_split(fnames[i])[2] = name THEN i
    ELSE FirstNamed(fnames, name, i + 1)

\* a lookup that ignores load and always parses
SeafloorFabricAlwaysLoad(feature_type, load, env) ==
    LET r == retrieve(env) IN
    IF ~r.ok THEN Outcome(Raise("ValueError"), 1, <<>>, 0)
    ELSE IF feature_type \notin DOMAIN FABRIC_TYPE
    THEN Outcome(Raise("ValueError"), 1, <<>>, 0)
    ELSE LET k == FirstNamed(r.fnames, FABRIC_TYPE[feature_type], 1) IN
         IF k = 0 THEN Outcome(None, 1, <<>>, Len(r.fnames))
         ELSE Outcome(read_file(r.fnames[k], Range(r.fnames)), 1, <<r.fnames[k]>>, k)

\* a lookup without the check of lines 77-78
SeafloorFabricNoCheck(feature_type, load, env) ==
    LET r == retrieve(env) IN
    IF ~r.ok THEN Outcome(Raise("ValueError"), 1, <<>>, 0)
    ELSE IF feature_type \notin FABRIC_CODES
    THEN Outcome(None, 1, <<>>, Len(r.fnames))
    ELSE LET k == FirstNamed(r.fnames, FABRIC_TYPE[feature_type], 1) IN
         IF k = 0 THEN Outcome(None, 1, <<>>, Len(r.fnames))
         ELSE IF load
         THEN Outcome(read_file(r.fnames[k], Range(r.fnames)), 1, <<r.fnames[k]>>, k)
         ELSE Outcome(Filename(r.fnames[k]), 1, <<>>, k)

SeafloorFabric(feature_type, load, env) ==
    LET r == retrieve(env) IN
    IF ~r.ok THEN Outcome(Raise("ValueError"), 1, <<>>, 0)
    ELSE IF feature_type \notin DOMAIN FABRIC_TYPE
    THEN Outcome(Raise("ValueError"), 1, <<>>, 0)
    ELSE LET k == FirstNamed(r.fnames, FABRIC_TYPE[feature_type], 1) IN
         IF k = 0 THEN Outcome(None, 1, <<>>, Len(r.fnames))
         ELSE IF load
         THEN Outcome(read_file(r.fnames[k], Range(r.fnames)), 1, <<r.fnames[k]>>, k)
         ELSE Outcome(Filename(r.fnames[k]), 1, <<>>, k)

---------------------------------------------------------------------------
(* LargeIgneousProvinces *)

LIP_ROOT == "LargeIgneousProvinces_VolcanicProvinces"

WhittakerPath(dirname) ==
    dirname \o <<LIP_ROOT, "Whittaker_etal_2015_LargeIgneousProvinces", "SHP",
                 "Whittaker_etal_2015_LIPs.shp">>

JohanssonPath(dirname) ==
    dirname \o <<LIP_ROOT, "Johansson_etal_2018_VolcanicProvinces", "SHP",
                 "Johansson_etal_2018_VolcanicProvinces_v2.shp">>

\* the loop of lines 141-143 from entry i on: dirname as the loop leaves it
RECURSIVE LicenseDir(_, _, _)
LicenseDir(fnames, i, dirname) ==
    IF i > Len(fnames) THEN dirname
    ELSE LicenseDir(fnames, i + 1,
                    IF os_path_split(fnames[i])[2] = "License.txt"
                    THEN Bound(os_path_split(fnames[i])[1]) ELSE dirname)

\* the loop variable fname after the loop: the last entry, if there is one
LoopVar(fnames) ==
    IF Len(fnames) = 0 THEN Unbound ELSE Bound(fnames[Len(fnames)])

\* lines 145-153 once the loop has run: fname is chosen and returned or read
LIPSelect(catalogue, load, fnames) ==
    LET n == Len(fnames)
        dirname == LicenseDir(fnames, 1, Unbound)
        known == catalogue \in {"Whittaker", "Johansson"}
        fname ==
            IF catalogue = "Whittaker" THEN Bound(WhittakerPath(dirname.val))
            ELSE IF catalogue = "Johansson" THEN Bound(JohanssonPath(dirname.val))
            ELSE LoopVar(fnames)
    IN  IF known /\ ~dirname.bound
        THEN Outcome(Raise("UnboundLocalError"), 1, <<>>, n)
        ELSE IF ~fname.bound
        THEN Outcome(Raise("UnboundLocalError"), 1, <<>>, n)
        ELSE IF load
        THEN Outcome(read_file(fname.val, Range(fnames)), 1, <<fname.val>>, n)
        ELSE Outcome(Filename(fname.val), 1, <<>>, n)

LargeIgneousProvinces(catalogue, load, env) ==
    LET r == retrieve(env) IN
    IF ~r.ok THEN Outcome(Raise("ValueError"), 1, <<>>, 0)
    ELSE LIPSelect(catalogue, load, r.fnames)

---------------------------------------------------------------------------
(* ReconstructionModel *)

\* __init__
NewReconstructionModel(name) ==
    [name |-> name, rotation_model |-> <<>>, static_polygons |-> <<>>,
     dynamic_polygons |-> <<>>]

add_rotation_model(self, rotation_file) ==
    [self EXCEPT !.rotation_model = Append(@, rotation_file)]

\* an add that lands in the wrong list
add_static_polygons_misfiled(self, static_polygons_file) ==
    [self EXCEPT !.rotation_model = Append(@, static_polygons_file)]

add_static_polygons(self, static_polygons_file) ==
    [self EXCEPT !.static_polygons = Append(@, static_polygons_file)]

add_dynamic_polygons(self, dynamic_polygons_file) ==
    [self EXCEPT !.dynamic_polygons = Append(@, dynamic_polygons_file)]

\* PlateSnapshot.__init__: rotation_model is the model's own list object, so
\* it is read through rm; areas, perimeters and centroids are engine geometry
PlateSnapshot(resolved_topologies, reconstruction_time, anchor_plate_id) ==
    [made |-> TRUE,
     reconstruction_time |-> reconstruction_time,
     anchor_plate |-> anchor_plate_id,
     resolved_topologies |-> resolved_topologies,
     plate_count |-> Len(resolved_topologies),
     plate_ids |-> [i \in 1..Len(resolved_topologies) |->
                        resolved_topologies[i].plate_id]]

NoSnapshot ==
    [made |-> FALSE, reconstruction_time |-> 0, anchor_plate |-> 0,
     resolved_topologies |-> <<>>, plate_count |-> 0, plate_ids |-> <<>>]

DataFrameTemplate ==
    <<"lon", "lat", "conv_rate", "conv_obliq", "migr_rate", "migr_obliq",
      "arc_length", "arc_azimuth", "subducting_plate", "overriding_plate", "time">>

\* a loop that puts the time in front of the sample
SubductionDataTimeFirst(result, reconstruction_time) ==
    [i \in 1..Len(result) |-> <<reconstruction_time>> \o result[i]]

\* lines 58-60: subduction_data, one tuple data+(reconstruction_time,) per sample
SubductionData(result, reconstruction_time) ==
    [i \in 1..Len(result) |-> result[i] \o <<reconstruction_time>>]

\* pd.DataFrame(rows, columns=...): every row must be as wide as the columns
DataFrame(rows, columns) ==
    IF \A i \in 1..Len(rows) : Len(rows[i]) = Len(columns)
    THEN [ok |-> TRUE, columns |-> columns, rows |-> rows]
    ELSE [ok |-> FALSE, columns |-> <<>>, rows |-> <<>>]

\* lines 57-70 on the engine's result: the table SubductionConvergence wraps
SubductionConvergence(result, reconstruction_time) ==
    DataFrame(SubductionData(result, reconstruction_time), DataFrameTemplate)

NoConvergence ==
    [called |-> FALSE, time |-> 0, result |-> <<>>,
     df |-> [ok |-> FALSE, columns |-> <<>>, rows |-> <<>>]]

---------------------------------------------------------------------------
(* age_coded_point_dataset: an instance is the function from the names of *)
(* its attributes to their values, as Python keeps it.                     *)

\* how a method call ends: a returned feature list, None (with the points
\* it plotted, as (lon, lat)), or an exception
Returns(features) ==
    [kind |-> "ok", exc |-> "", features |-> features, plotted |-> <<>>]
ReturnsNone(plotted) ==
    [kind |-> "none", exc |-> "", features |-> <<>>, plotted |-> plotted]
Raises(e) ==
    [kind |-> "raise", exc |-> e, features |-> <<>>, plotted |-> <<>>]

\* lines 232-235: the feature of one row, valid from the row's age on
PointFeature(row) ==
    [lat |-> row.lat, lon |-> row.lon, begin |-> row.age, end |-> -999,
     plate_id |-> 0]

\* __init__
NewDataset(df) ==
    [df |-> df,
     point_features |-> [i \in 1..Len(df) |-> PointFeature(df[i])]]

\* pygplates.partition_into_plates: each feature gets the id of the static
\* polygon around it (none without polygons)
partition_into_plates(static_polygons, rotation_model, features) ==
    [i \in 1..Len(features) |->
        [features[i] EXCEPT !.plate_id =
            IF static_polygons = <<>> THEN 0
            ELSE IF features[i].lon < 0 THEN 101 ELSE 201]]

\* pygplates.reconstruct: the features that exist at the time, each with the
\* rotation model, time and anchor plate it was reconstructed with
pygplates_reconstruct(features, rotation_model, reconstruction_time, anchor_plate_id) ==
    LET exists(f) == f.begin >= reconstruction_time /\ reconstruction_time >= f.end
        moved(f) == [feature |-> f, rotation_model |-> rotation_model,
                     time |-> reconstruction_time, anchor |-> anchor_plate_id]
        kept == SelectSeq(features, exists)
    IN  [i \in 1..Len(kept) |-> moved(kept[i])]

assign_reconstruction_model(self, reconstruction_model) ==
    ("reconstruction_model" :> reconstruction_model)
    @@ ("point_features" :>
            partition_into_plates(reconstruction_model.static_polygons,
                                  reconstruction_model.rotation_model,
                                  self["point_features"]))
    @@ self

\* lines 247-255: the attribute read is self.reconstuction_model
reconstruct(self, reconstruction_time, anchor_plate_id) ==
    IF "reconstuction_model" \notin DOMAIN self
    THEN Raises("AttributeError")
    ELSE Returns(pygplates_reconstruct(self["point_features"],
                                       self["reconstuction_model"].rotation_model,
                                       reconstruction_time, anchor_plate_id))

\* lines 258-272: every reconstructed feature is plotted at its (lon, lat);
\* there is no return statement, so the call returns None
plot_reconstructed(self, reconstruction_time, anchor_plate_id) ==
    IF "reconstruction_model" \notin DOMAIN self
    THEN Raises("AttributeError")
    ELSE LET reconstructed_features ==
                pygplates_reconstruct(self["point_features"],
                                      self["reconstruction_model"].rotation_model,
                                      reconstruction_time, anchor_plate_id)
         IN  ReturnsNone([i \in 1..Len(reconstructed_features) |->
                            <<reconstructed_features[i].feature.lon,
                              reconstructed_features[i].feature.lat>>])

---------------------------------------------------------------------------
(* point_distribution_on_sphere.__init__ *)

Built(longitude, latitude) ==
    [kind |-> "ok", exc |-> "", longitude |-> longitude, latitude |-> latitude,
     multipoint |-> [i \in 1..Len(latitude) |-> <<latitude[i], longitude[i]>>]]
NotBuilt(e) ==
    [kind |-> "raise", exc |-> e, longitude |-> <<>>, latitude |-> <<>>,
     multipoint |-> <<>>]

\* lines 301-307: the angles of pixels 0 .. 12*N**2-1; pixel k's angles are
\* kept as the pixel number
healpix(N) ==
    LET pixels == [i \in 1..(12 * N * N) |-> i - 1]
    IN  Built(pixels, pixels)

\* lines 314-328.  Line 321, "Long=[], Lat=[]", is the chained assignment
\* Long = ([], Lat) = []: the empty list is unpacked into two targets
random(N) ==
    LET value == <<>>
        targets == 2
    IN  IF Len(value) # targets THEN NotBuilt("ValueError")
        ELSE Built([i \in 1..N |-> i], [i \in 1..N |-> i])

\* lines 300-332; with any other distribution_type no branch sets
\* self.latitude, which line 330 reads
point_distribution_on_sphere(distribution_type, N) ==
    IF distribution_type = "healpix" THEN healpix(N)
    ELSE IF distribution_type = "random" THEN random(N)
    ELSE NotBuilt("AttributeError")

---------------------------------------------------------------------------
(* PlateSnapshot.velocity_field and VelocityField.  A feature is the list   *)
(* of its geometries, a geometry the list of its points.                   *)

RECURSIVE Concat(_)
Concat(seqs) == IF seqs = <<>> THEN <<>> ELSE Head(seqs) \o Concat(Tail(seqs))

\* lines 113-121: the points in the order the three loops visit them
all_domain_points(velocity_domain_features) ==
    Concat([f \in 1..Len(velocity_domain_features) |->
                Concat(velocity_domain_features[f])])

\* PlatePartitioner.partition_point: the first resolved plate around the
\* point, 0 standing for None
RECURSIVE partition_point(_, _, _)
partition_point(resolved_topologies, point, i) ==
    IF i > Len(resolved_topologies) THEN 0
    ELSE IF point.id \in resolved_topologies[i].covers THEN i
    ELSE partition_point(resolved_topologies, point, i + 1)

\* the engine's velocity of a point on a plate as a north-east-down vector
\* (an object with get_x, get_y) and as a (magnitude, azimuth, inclination)
\* tuple; the tuple (0,0,0) appended for a point in no plate has no get_x
NorthEastDown(point, plate_id, time, delta_time) ==
    [get_x |-> TRUE, x |-> plate_id + point.id + time,
     y |-> 2 * plate_id + point.id + delta_time, z |-> 0]
MagnitudeAzimuthInclination(point, plate_id, time, delta_time) ==
    <<3 * plate_id + point.id + time, 4 * plate_id + point.id, 0>>
ZeroTuple == [get_x |-> FALSE, x |-> 0, y |-> 0, z |-> 0]

\* the velocity_domain_features argument: a list of features, or None
GivenDomain(features) == [given |-> TRUE, features |-> features]
DefaultDomain == [given |-> FALSE, features |-> <<>>]

\* N of the default domain of line 99
DefaultResolution == 32

\* VelocityField.__init__ (made and exc tell a returned object from a call
\* that raised)
VelocityField(pt_lat, pt_lon, vel_east, vel_north, vel_mag, vel_azim, plate_ids) ==
    [made |-> TRUE,
     exc |-> "",
     longitude |-> pt_lon,
     latitude |-> pt_lat,
     plate_id |-> plate_ids,
     velocity_east |-> vel_east,
     velocity_north |-> vel_north,
     velocity_magnitude |-> vel_mag,
     velocity_azimuth |-> vel_azim]

NoField ==
    [made |-> FALSE, exc |-> "", longitude |-> <<>>, latitude |-> <<>>,
     plate_id |-> <<>>, velocity_east |-> <<>>, velocity_north |-> <<>>,
     velocity_magnitude |-> <<>>, velocity_azimuth |-> <<>>]

FieldRaises(e) == [NoField EXCEPT !.exc = e]

\* a loop without the else branch of lines 155-159: a point in no plate adds
\* no velocity and no plate id
velocity_field_no_else(self, velocity_domain_features, delta_time, iteration_error) ==
    LET pts == all_domain_points(velocity_domain_features.features)
        inplate(p) == partition_point(self.resolved_topologies, p, 1) # 0
        cov == SelectSeq(pts, inplate)
        id(p) == self.resolved_topologies[
                    partition_point(self.resolved_topologies, p, 1)].plate_id
        en == [i \in 1..Len(cov) |->
                NorthEastDown(cov[i], id(cov[i]), self.reconstruction_time, delta_time)]
        magaz == [i \in 1..Len(cov) |->
                MagnitudeAzimuthInclination(cov[i], id(cov[i]),
                                            self.reconstruction_time, delta_time)]
    IN  VelocityField([i \in 1..Len(pts) |-> pts[i].lat],
                      [i \in 1..Len(pts) |-> pts[i].lon],
                      [i \in 1..Len(cov) |-> en[i].y],
                      [i \in 1..Len(cov) |-> en[i].x],
                      [i \in 1..Len(cov) |-> magaz[i][1]],
                      [i \in 1..Len(cov) |-> magaz[i][2]],
                      [i \in 1..Len(cov) |-> id(cov[i])])

\* lines 101-183 for a list of domain features
velocity_field_of(self, velocity_domain_features, delta_time) ==
    LET all_points == all_domain_points(velocity_domain_features)
        n == Len(all_points)
        partitioning_plate(i) ==
            partition_point(self.resolved_topologies, all_points[i], 1)
        partitioning_plate_id(i) ==
            self.resolved_topologies[partitioning_plate(i)].plate_id
        all_velocities_en ==
            [i \in 1..n |->
                IF partitioning_plate(i) # 0
                THEN NorthEastDown(all_points[i], partitioning_plate_id(i),
                                   self.reconstruction_time, delta_time)
                ELSE ZeroTuple]
        all_velocities_magaz ==
            [i \in 1..n |->
                IF partitioning_plate(i) # 0
                THEN MagnitudeAzimuthInclination(all_points[i], partitioning_plate_id(i),
                                                 self.reconstruction_time, delta_time)
                ELSE <<0, 0, 0>>]
        plate_ids ==
            [i \in 1..n |->
                IF partitioning_plate(i) # 0 THEN partitioning_plate_id(i) ELSE 0]
        vel_east ==
            [i \in 1..n |->
                IF all_velocities_en[i].get_x THEN all_velocities_en[i].y ELSE 0]
        vel_north ==
            [i \in 1..n |->
                IF all_velocities_en[i].get_x THEN all_velocities_en[i].x ELSE 0]
        vel_mag == [i \in 1..n |-> all_velocities_magaz[i][1]]
        vel_azim == [i \in 1..n |-> all_velocities_magaz[i][2]]
        pt_lon == [i \in 1..n |-> all_points[i].lon]
        pt_lat == [i \in 1..n |-> all_points[i].lat]
    IN  VelocityField(pt_lat, pt_lon, vel_east, vel_north, vel_mag, vel_azim, plate_ids)

\* lines 96-183.  With velocity_domain_features=None (lines 98-99) the
\* domain is the meshnode_feature of a healpix distribution: one Feature,
\* not a list of features.  The loop of line 113 then iterates the Feature
\* itself, and the engine decides how that fails: the Feature is not
\* iterable (TypeError), or it yields its properties, which have no
\* get_geometries (AttributeError).
velocity_field(self, velocity_domain_features, delta_time, iteration_error) ==
    IF velocity_domain_features.given
    THEN velocity_field_of(self, velocity_domain_features.features, delta_time)
    ELSE LET default == point_distribution_on_sphere("healpix", DefaultResolution)
         IN  IF default.kind = "raise" THEN FieldRaises(default.exc)
             ELSE FieldRaises(iteration_error)

---------------------------------------------------------------------------
(* The inputs of the fetch specification *)

PICKS_FILE == os_cache \o <<"GSFML.global.picks.gmt">>
AGES_FILE == os_cache \o <<"Pacific_Ages.txt">>
CENSUS_FILE == os_cache \o <<"KWSMTSv01.txt">>

FABRIC_DIR == os_cache \o <<"GSFML_SF.tbz.untar", "GSFML_SF">>
FABRIC_ALT_DIR == os_cache \o <<"GSFML_SF.tbz.untar", "old">>

\* what an extracted seafloor-fabric archive may hold: the ten data files,
\* a second file named like the FZ one, and a file that is no data file
SFMembers ==
    {FABRIC_DIR \o <<FABRIC_TYPE[c]>> : c \in FABRIC_CODES}
    \cup {FABRIC_ALT_DIR \o <<"GSFML_SF_FZ_KM.gmt">>, FABRIC_DIR \o <<"README.txt">>}

LIP_DIR == os_cache \o <<"LIP.zip.unzip">>
LIP_ALT_DIR == os_cache \o <<"LIP.zip.unzip", "copy">>

LIPMembers ==
    {LIP_DIR \o <<"License.txt">>, LIP_ALT_DIR \o <<"License.txt">>,
     WhittakerPath(LIP_DIR), JohanssonPath(LIP_DIR), WhittakerPath(LIP_ALT_DIR)}

FeatureTypes == FABRIC_CODES \cup {"fz", "", "FZ_KM", "GSFML_SF_FZ_KM.gmt"}
Catalogues == {"Whittaker", "Johansson", "whittaker", ""}

NoCall == [fn |-> "none", arg |-> "", load |-> FALSE]
Call(fn, arg, load) == [fn |-> fn, arg |-> arg, load |-> load]

\* the environments of one dataset: a failed retrieve yields no file list
Envs(dataset, files) ==
    {Env(dataset, TRUE, f) : f \in files} \cup {Env(dataset, FALSE, <<>>)}

Worlds ==
    Envs("picks", {<<PICKS_FILE>>})
    \cup Envs("ages", {<<AGES_FILE>>})
    \cup Envs("census", {<<CENSUS_FILE>>})
    \cup Envs("fabric", SeqsUpTo(SFMembers, MaxFiles))
    \cup Envs("lips", SeqsUpTo(LIPMembers, MaxFiles))

---------------------------------------------------------------------------
(* The inputs of the specifications, and the value of each variable before *)
(* its part of the program has run                                         *)

Files == {"a.rot", "b.gpml"}
Times == {0, 10}
AnchorPlates == {0, 701}

\* what the engine may resolve: no plate, one plate, two plates; a plate
\* covers the points with the given ids
Plate(plate_id, covers) == [plate_id |-> plate_id, covers |-> covers]
Topologies ==
    {<<>>, <<Plate(101, {1, 2})>>, <<Plate(101, {1}), Plate(201, {2, 1})>>}

\* the engine's samples: ten values each, all different
Sample(k) == [j \in 1..10 |-> 100 * k + j]
Samples == {Sample(1), Sample(2)}

NoLog == [rotation_model |-> <<>>, static_polygons |-> <<>>, dynamic_polygons |-> <<>>]

Adds == Len(added.rotation_model) + Len(added.static_polygons)
            + Len(added.dynamic_polygons)

IdleWorld == Env("picks", TRUE, <<PICKS_FILE>>)
NoOutcome == Outcome(None, 0, <<>>, 0)

\* the rows of a table of age-coded points
Row(lon, lat, age) == [lon |-> lon, lat |-> lat, age |-> age]
Rows == {Row(-30, 10, 5), Row(40, -20, 20)}

\* the reconstruction models a dataset may be assigned
Models ==
    {add_static_polygons(add_rotation_model(NewReconstructionModel("m1"), "a.rot"),
                         "b.gpml"),
     add_rotation_model(NewReconstructionModel("m2"), "b.rot")}

NoLast == [op |-> "none", time |-> 0, anchor |-> 0, result |-> ReturnsNone(<<>>)]
Last(op, time, anchor, result) ==
    [op |-> op, time |-> time, anchor |-> anchor, result |-> result]

\* domain points and the features built from them: no geometry, one
\* geometry, several geometries, an empty geometry
Point(id, lat, lon) == [id |-> id, lat |-> lat, lon |-> lon]
P1 == Point(1, 10, 20)
P2 == Point(2, -30, 40)
P3 == Point(3, 50, -60)
FeatureShapes ==
    {<<>>, << <<P1>> >>, << <<P1, P3>> >>, << <<P3>>, <<P2, P1>> >>,
     << <<>>, <<P3>> >>}
DeltaTimes == {1, 5}

\* how the engine may fail when a Feature is iterated as a list of features
IterationErrors == {"TypeError", "AttributeError"}

DistributionTypes == {"healpix", "random", "Healpix", "fibonacci", ""}
DistArgs(distribution_type, N) == [distribution_type |-> distribution_type, N |-> N]
NoDistribution ==
    [kind |-> "none", exc |-> "", longitude |-> <<>>, latitude |-> <<>>,
     multipoint |-> <<>>]

---------------------------------------------------------------------------
(* One action per fetcher: the whole call, against the dataset's world *)

CallMagneticPicks ==
    /\ world.dataset = "picks"
    /\ \E load \in BOOLEAN :
        /\ call' = Call("MagneticPicks", "", load)
        /\ out' = MagneticPicks(load, world)
    /\ UNCHANGED <<world, modelVars, dataVars, velVars, distVars>>

CallPacificSeamountAges ==
    /\ world.dataset = "ages"
    /\ \E load \in BOOLEAN :
        /\ call' = Call("PacificSeamountAges", "", load)
        /\ out' = PacificSeamountAges(load, world)
    /\ UNCHANGED <<world, modelVars, dataVars, velVars, distVars>>

CallSeamountCensus ==
    /\ world.dataset = "census"
    /\ \E load \in BOOLEAN :
        /\ call' = Call("SeamountCensus", "", load)
        /\ out' = SeamountCensus(load, world)
    /\ UNCHANGED <<world, modelVars, dataVars, velVars, distVars>>

CallSeafloorFabric ==
    /\ world.dataset = "fabric"
    /\ \E feature_type \in FeatureTypes, load \in BOOLEAN :
        /\ call' = Call("SeafloorFabric", feature_type, load)
        /\ out' = SeafloorFabric(feature_type, load, world)
    /\ UNCHANGED <<world, modelVars, dataVars, velVars, distVars>>

CallLargeIgneousProvinces ==
    /\ world.dataset = "lips"
    /\ \E catalogue \in Catalogues, load \in BOOLEAN :
        /\ call' = Call("LargeIgneousProvinces", catalogue, load)
        /\ out' = LargeIgneousProvinces(catalogue, load, world)
    /\ UNCHANGED <<world, modelVars, dataVars, velVars, distVars>>

FetchInit ==
    /\ world \in Worlds
    /\ call = NoCall
    /\ out = NoOutcome
    /\ rm = NewReconstructionModel("model")
    /\ added = NoLog
    /\ snap = NoSnapshot
    /\ conv = NoConvergence
    /\ ds = NewDataset(<<>>)
    /\ last = NoLast
    /\ vsnap = NoSnapshot
    /\ domain = GivenDomain(<<>>)
    /\ field = NoField
    /\ dargs = DistArgs("", 0)
    /\ dist = NoDistribution

FetchNext ==
    \/ CallMagneticPicks
    \/ CallPacificSeamountAges
    \/ CallSeamountCensus
    \/ CallSeafloorFabric
    \/ CallLargeIgneousProvinces

FetchSpec == FetchInit /\ [][FetchNext]_vars

---------------------------------------------------------------------------
(* Properties of the fetchers *)

DocumentedCodes ==
    {"FZ", "FZLC", "UNCV", "DZ", "PR", "VANOM", "ER", "FZ_JW", "FZ_RM", "FZ_MC"}

BaseName(p) == IF Len(p) = 0 THEN "" ELSE p[Len(p)]

\* the entries of a file list with a given base name
Named(files, name) == {i \in 1..Len(files) : BaseName(files[i]) = name}

FirstOf(S) == CHOOSE i \in S : \A j \in S : i <= j

Returned(o) == o.result.kind \in {"filename", "table"}

\* C1: SeafloorFabric with a feature type outside the ten documented codes
\* raises ValueError and returns neither a filename nor a table, whatever
\* load is and whatever the archive holds.
C1_UnknownFeatureTypeRaises ==
    (call.fn = "SeafloorFabric" /\ call.arg \notin DocumentedCodes)
        => /\ out.result = Raise("ValueError")
           /\ ~Returned(out)

C1_Witness ==
    /\ call.fn = "SeafloorFabric"
    /\ call.arg = "fz"
    /\ call.load
    /\ world.hashOK
    /\ Named(world.files, "GSFML_SF_FZ_KM.gmt") # {}
    /\ out.result = Raise("ValueError")

\* C2: LargeIgneousProvinces with a catalogue other than 'Whittaker' or
\* 'Johansson' raises a value error and returns neither a filename nor a
\* table, for both values of load (stated here for an extracted archive that
\* holds its License.txt, as the published one does).
C2_UnknownCatalogueRaises ==
    (/\ call.fn = "LargeIgneousProvinces"
     /\ call.arg \notin {"Whittaker", "Johansson"}
     /\ Named(world.files, "License.txt") # {})
        => /\ out.result = Raise("ValueError")
           /\ ~Returned(out)

LIPName(catalogue) ==
    IF catalogue = "Whittaker" THEN "Whittaker_etal_2015_LIPs.shp"
    ELSE "Johansson_etal_2018_VolcanicProvinces_v2.shp"

\* C3: when the extracted archive lacks the file the argument selects (for
\* LargeIgneousProvinces also when it lacks License.txt), SeafloorFabric and
\* LargeIgneousProvinces return None: no exception, no filename, no table.
C3_AbsentFileYieldsNone ==
    /\ (/\ call.fn = "SeafloorFabric"
        /\ call.arg \in DocumentedCodes
        /\ world.hashOK
        /\ Named(world.files, FABRIC_TYPE[call.arg]) = {})
            => out.result = None
    /\ (/\ call.fn = "LargeIgneousProvinces"
        /\ call.arg \in {"Whittaker", "Johansson"}
        /\ world.hashOK
        /\ \/ Named(world.files, LIPName(call.arg)) = {}
           \/ Named(world.files, "License.txt") = {})
            => out.result = None

\* C4: when retrieve reports a hash mismatch, each of the five fetchers
\* returns neither a filename nor a table, parses nothing, inspects no
\* archive entry and has called retrieve exactly once.
C4_HashMismatchFailsFetch ==
    (call.fn # "none" /\ ~world.hashOK)
        => /\ ~Returned(out)
           /\ out.result.kind = "raise"
           /\ out.parsed = <<>>
           /\ out.inspected = 0
           /\ out.retrieves = 1

C4_Witness ==
    /\ call.fn = "MagneticPicks"
    /\ call.load
    /\ ~world.hashOK
    /\ out.result.kind = "raise"

\* C5: with load=False MagneticPicks returns exactly the path retrieve gave,
\* and SeafloorFabric(code) returns the archive path whose base name is the
\* file mapped to the code, parsing nothing; with load=True that same file
\* is the one parsed; the ten codes map to ten distinct file names.
C5_LoadFalseReturnsFilename ==
    /\ DOMAIN FABRIC_TYPE = DocumentedCodes
    /\ Cardinality({FABRIC_TYPE[c] : c \in DocumentedCodes}) = 10
    /\ (call.fn = "MagneticPicks" /\ ~call.load /\ world.hashOK)
        => /\ out.result = Filename(world.files[1])
           /\ out.parsed = <<>>
    /\ (/\ call.fn = "SeafloorFabric"
        /\ call.arg \in DocumentedCodes
        /\ world.hashOK
        /\ Named(world.files, FABRIC_TYPE[call.arg]) # {})
        => LET sel == world.files[FirstOf(Named(world.files, FABRIC_TYPE[call.arg]))]
           IN  /\ BaseName(sel) = FABRIC_TYPE[call.arg]
               /\ ~call.load => (out.result = Filename(sel) /\ out.parsed = <<>>)
               /\ call.load => (out.result = Table(sel) /\ out.parsed = <<sel>>)

C5_Witness ==
    /\ call.fn = "SeafloorFabric"
    /\ call.arg = "FZ"
    /\ ~call.load
    /\ world.hashOK
    /\ Cardinality(Named(world.files, "GSFML_SF_FZ_KM.gmt")) = 2
    /\ out.result.kind = "filename"

---------------------------------------------------------------------------
(* The ReconstructionModel specification *)

AddRotationModel ==
    /\ Adds < MaxAdds
    /\ \E f \in Files :
        /\ rm' = add_rotation_model(rm, f)
        /\ added' = [added EXCEPT !.rotation_model = Append(@, f)]
    /\ UNCHANGED <<snap, conv, fetchVars, dataVars, velVars, distVars>>

AddStaticPolygons ==
    /\ Adds < MaxAdds
    /\ \E f \in Files :
        /\ rm' = add_static_polygons(rm, f)
        /\ added' = [added EXCEPT !.static_polygons = Append(@, f)]
    /\ UNCHANGED <<snap, conv, fetchVars, dataVars, velVars, distVars>>

AddDynamicPolygons ==
    /\ Adds < MaxAdds
    /\ \E f \in Files :
        /\ rm' = add_dynamic_polygons(rm, f)
        /\ added' = [added EXCEPT !.dynamic_polygons = Append(@, f)]
    /\ UNCHANGED <<snap, conv, fetchVars, dataVars, velVars, distVars>>

\* plate_snapshot: the engine resolves the topologies; the lists are only read
DoPlateSnapshot ==
    /\ \E t \in Times, anchor \in AnchorPlates, resolved \in Topologies :
        snap' = PlateSnapshot(resolved, t, anchor)
    /\ UNCHANGED <<rm, added, conv, fetchVars, dataVars, velVars, distVars>>

\* subduction_convergence: the engine samples the subduction zones
DoSubductionConvergence ==
    /\ \E t \in Times, result \in SeqsUpTo(Samples, MaxSamples) :
        conv' = [called |-> TRUE, time |-> t, result |-> result,
                 df |-> SubductionConvergence(result, t)]
    /\ UNCHANGED <<rm, added, snap, fetchVars, dataVars, velVars, distVars>>

ModelNext ==
    \/ AddRotationModel
    \/ AddStaticPolygons
    \/ AddDynamicPolygons
    \/ DoPlateSnapshot
    \/ DoSubductionConvergence

ModelInit ==
    /\ rm = NewReconstructionModel("model")
    /\ added = NoLog
    /\ snap = NoSnapshot
    /\ conv = NoConvergence
    /\ world = IdleWorld
    /\ call = NoCall
    /\ out = NoOutcome
    /\ ds = NewDataset(<<>>)
    /\ last = NoLast
    /\ vsnap = NoSnapshot
    /\ domain = GivenDomain(<<>>)
    /\ field = NoField
    /\ dargs = DistArgs("", 0)
    /\ dist = NoDistribution

ModelSpec == ModelInit /\ [][ModelNext]_vars

\* C6: the table of subduction_convergence has the eleven documented columns
\* in order, one row per engine sample in the engine's order, the sample's
\* ten values unchanged in the first ten columns, and the requested time in
\* the time column of every row.
C6_ConvergenceTable ==
    conv.called =>
        /\ conv.df.ok
        /\ conv.df.columns =
            <<"lon", "lat", "conv_rate", "conv_obliq", "migr_rate", "migr_obliq",
              "arc_length", "arc_azimuth", "subducting_plate", "overriding_plate",
              "time">>
        /\ Len(conv.df.rows) = Len(conv.result)
        /\ \A i \in 1..Len(conv.result) :
            /\ Len(conv.df.rows[i]) = 11
            /\ \A j \in 1..10 : conv.df.rows[i][j] = conv.result[i][j]
            /\ conv.df.rows[i][11] = conv.time

C6_Witness ==
    /\ conv.called
    /\ conv.time = 10
    /\ conv.result = <<Sample(2), Sample(1)>>
    /\ Len(conv.df.rows) = 2

LogMatches ==
    /\ rm.rotation_model = added.rotation_model
    /\ rm.static_polygons = added.static_polygons
    /\ rm.dynamic_polygons = added.dynamic_polygons

OnlyGrew(old, new) ==
    /\ Len(new) = Len(old) + 1
    /\ SubSeq(new, 1, Len(old)) = old

AddFrame ==
    /\ rm'.name = rm.name
    /\ added'.rotation_model # added.rotation_model
        => /\ OnlyGrew(rm.rotation_model, rm'.rotation_model)
           /\ rm'.static_polygons = rm.static_polygons
           /\ rm'.dynamic_polygons = rm.dynamic_polygons
    /\ added'.static_polygons # added.static_polygons
        => /\ OnlyGrew(rm.static_polygons, rm'.static_polygons)
           /\ rm'.rotation_model = rm.rotation_model
           /\ rm'.dynamic_polygons = rm.dynamic_polygons
    /\ added'.dynamic_polygons # added.dynamic_polygons
        => /\ OnlyGrew(rm.dynamic_polygons, rm'.dynamic_polygons)
           /\ rm'.rotation_model = rm.rotation_model
           /\ rm'.static_polygons = rm.static_polygons
    /\ added' = added => rm' = rm

\* C10: each of rotation_model, static_polygons and dynamic_polygons is
\* exactly the sequence of files passed to its own add_* method, in call
\* order with duplicates kept; an add_* leaves the other two lists and the
\* name alone; plate_snapshot and subduction_convergence leave all three.
C10_ListsAreTheirAdds == [](LogMatches) /\ [][AddFrame]_vars

C10_Witness ==
    /\ rm.rotation_model = <<"a.rot", "a.rot">>
    /\ rm.dynamic_polygons = <<"b.gpml">>
    /\ rm.static_polygons = <<>>
    /\ snap.made
    /\ conv.called

---------------------------------------------------------------------------
(* The age_coded_point_dataset specification *)

AssignReconstructionModel ==
    /\ \E m \in Models :
        /\ ds' = assign_reconstruction_model(ds, m)
        /\ last' = Last("assign_reconstruction_model", 0, 0, ReturnsNone(<<>>))
    /\ UNCHANGED <<fetchVars, modelVars, velVars, distVars>>

Reconstruct ==
    /\ \E t \in Times, anchor \in AnchorPlates :
        last' = Last("reconstruct", t, anchor, reconstruct(ds, t, anchor))
    /\ UNCHANGED <<ds, fetchVars, modelVars, velVars, distVars>>

PlotReconstructed ==
    /\ \E t \in Times, anchor \in AnchorPlates :
        last' = Last("plot_reconstructed", t, anchor, plot_reconstructed(ds, t, anchor))
    /\ UNCHANGED <<ds, fetchVars, modelVars, velVars, distVars>>

DataInit ==
    /\ ds \in {NewDataset(df) : df \in SeqsUpTo(Rows, MaxRows)}
    /\ last = NoLast
    /\ world = IdleWorld
    /\ call = NoCall
    /\ out = NoOutcome
    /\ rm = NewReconstructionModel("model")
    /\ added = NoLog
    /\ snap = NoSnapshot
    /\ conv = NoConvergence
    /\ vsnap = NoSnapshot
    /\ domain = GivenDomain(<<>>)
    /\ field = NoField
    /\ dargs = DistArgs("", 0)
    /\ dist = NoDistribution

DataNext ==
    \/ AssignReconstructionModel
    \/ Reconstruct
    \/ PlotReconstructed

DataSpec == DataInit /\ [][DataNext]_vars

\* C7: once assign_reconstruction_model(m) has been called, every later
\* reconstruct(t, anchor) completes and returns the features the engine
\* reconstructs with m's rotation model at time t; before any
\* assign_reconstruction_model, reconstruct fails.
C7_ReconstructAfterAssign ==
    last.op = "reconstruct" =>
        IF "reconstruction_model" \in DOMAIN ds
        THEN last.result =
                Returns(pygplates_reconstruct(ds["point_features"],
                                              ds["reconstruction_model"].rotation_model,
                                              last.time, last.anchor))
        ELSE last.result.kind = "raise"

---------------------------------------------------------------------------
(* The velocity_field specification *)

CallVelocityField ==
    /\ \E delta_time \in DeltaTimes, iteration_error \in IterationErrors :
        field' = velocity_field(vsnap, domain, delta_time, iteration_error)
    /\ UNCHANGED <<vsnap, domain, fetchVars, modelVars, dataVars, distVars>>

VelInit ==
    /\ vsnap \in {PlateSnapshot(r, t, 0) : r \in Topologies, t \in Times}
    /\ domain \in {GivenDomain(f) : f \in SeqsUpTo(FeatureShapes, MaxFeatures)}
                    \cup {DefaultDomain}
    /\ field = NoField
    /\ world = IdleWorld
    /\ call = NoCall
    /\ out = NoOutcome
    /\ rm = NewReconstructionModel("model")
    /\ added = NoLog
    /\ snap = NoSnapshot
    /\ conv = NoConvergence
    /\ ds = NewDataset(<<>>)
    /\ last = NoLast
    /\ dargs = DistArgs("", 0)
    /\ dist = NoDistribution

VelNext == CallVelocityField

VelSpec == VelInit /\ [][VelNext]_vars

RECURSIVE Sum(_)
Sum(ns) == IF ns = <<>> THEN 0 ELSE Head(ns) + Sum(Tail(ns))

\* the number of points of the domain, counted feature by feature
PointCount(features) ==
    Sum([f \in 1..Len(features) |->
            Sum([g \in 1..Len(features[f]) |-> Len(features[f][g])])])

\* the resolved plates around a point
Around(point) ==
    {k \in 1..Len(vsnap.resolved_topologies) :
        point.id \in vsnap.resolved_topologies[k].covers}

\* C8: for any given domain features velocity_field returns a VelocityField
\* whose seven lists have one entry per domain point, entry i being that of
\* the i-th point in iteration order, and a point in no resolved plate has
\* plate_id 0 and east, north, magnitude and azimuth 0.
C8_OneRecordPerPoint ==
    (domain.given /\ field # NoField) =>
        LET pts == all_domain_points(domain.features)
            n == PointCount(domain.features)
        IN  /\ field.made
            /\ Len(pts) = n
            /\ Len(field.longitude) = n
            /\ Len(field.latitude) = n
            /\ Len(field.plate_id) = n
            /\ Len(field.velocity_east) = n
            /\ Len(field.velocity_north) = n
            /\ Len(field.velocity_magnitude) = n
            /\ Len(field.velocity_azimuth) = n
            /\ \A i \in 1..n :
                /\ field.longitude[i] = pts[i].lon
                /\ field.latitude[i] = pts[i].lat
                /\ Around(pts[i]) # {} =>
                    field.plate_id[i] =
                        vsnap.resolved_topologies[FirstOf(Around(pts[i]))].plate_id
                /\ Around(pts[i]) = {} =>
                    /\ field.plate_id[i] = 0
                    /\ field.velocity_east[i] = 0
                    /\ field.velocity_north[i] = 0
                    /\ field.velocity_magnitude[i] = 0
                    /\ field.velocity_azimuth[i] = 0

C8_Witness ==
    /\ field.made
    /\ domain.given
    /\ Len(domain.features) = 2
    /\ Len(field.plate_id) = 4
    /\ \E i, j \in 1..Len(field.plate_id) :
        /\ field.plate_id[i] = 0
        /\ field.plate_id[j] = 201
        /\ i < j

---------------------------------------------------------------------------
(* The point_distribution_on_sphere specification *)

Construct ==
    /\ dist' = point_distribution_on_sphere(dargs.distribution_type, dargs.N)
    /\ UNCHANGED <<dargs, fetchVars, modelVars, dataVars, velVars>>

DistInit ==
    /\ dargs \in {DistArgs(t, N) : t \in DistributionTypes, N \in 1..MaxN}
    /\ dist = NoDistribution
    /\ world = IdleWorld
    /\ call = NoCall
    /\ out = NoOutcome
    /\ rm = NewReconstructionModel("model")
    /\ added = NoLog
    /\ snap = NoSnapshot
    /\ conv = NoConvergence
    /\ ds = NewDataset(<<>>)
    /\ last = NoLast
    /\ vsnap = NoSnapshot
    /\ domain = GivenDomain(<<>>)
    /\ field = NoField

DistNext == Construct

DistSpec == DistInit /\ [][DistNext]_vars

\* C9: with distribution_type 'random' and N points the construction
\* completes with longitude and latitude arrays of length N and a multipoint
\* of those N points; with 'healpix' and resolution N it yields exactly
\* 12*N*N points.
C9_DistributionSizes ==
    dist.kind # "none" =>
        /\ dargs.distribution_type = "random" =>
            /\ dist.kind = "ok"
            /\ Len(dist.longitude) = dargs.N
            /\ Len(dist.latitude) = dargs.N
            /\ Len(dist.multipoint) = dargs.N
        /\ dargs.distribution_type = "healpix" =>
            /\ dist.kind = "ok"
            /\ Len(dist.longitude) = 12 * dargs.N * dargs.N
            /\ Len(dist.latitude) = 12 * dargs.N * dargs.N
            /\ Len(dist.multipoint) = 12 * dargs.N * dargs.N

===========================================================================
